---- MODULE Spec2Model ----
(***************************************************************************)
(* Model of the nat-puncher utility module (utils): gateway location by    *)
(* longest prefix match, the binary frame builder createArrayBuffer, the   *)
(* countdownReject timeout promise and the array reconciliation helpers    *)
(* arrDiff / arrAdd.                                                       *)
(*                                                                         *)
(* IPv4 addresses are kept as their four octets, as ipaddr.js keeps them   *)
(* (IPv4.octets), so that no 32-bit quantity has to be computed.           *)
(***************************************************************************)
EXTENDS Integers, Sequences, FiniteSets, TLC

VARIABLES
    \* ---- gateway location ----
    ipList,        \* argument ipList of longestPrefixMatch
    matchIp,       \* argument matchIp of longestPrefixMatch
    correctIp,     \* value returned by longestPrefixMatch
    privateIps,    \* argument of filterRouterIps
    routerIps,     \* value returned by filterRouterIps
    gwPc,          \* which of the two calls have returned
    \* ---- createArrayBuffer ----
    bytes,         \* argument bytes
    matrix,        \* argument matrix, rows <<bits, byteOffset, value>>
    buffer,        \* the bytes behind view, one number 0..255 per byte
    i,             \* loop variable i
    errors,        \* number of console.error calls so far
    bufPc,         \* "idle", "loop", "returned" or "thrown" (RangeError)
    \* ---- countdownReject ----
    now,           \* time elapsed since countdownReject was called
    time,          \* argument time
    msg,           \* argument msg
    callback,      \* TRUE when a callback was passed, FALSE when undefined
    timer,         \* "none", "armed", "running" (inside the handler), "fired"
    promise,       \* the returned promise: [state, reason]
    cleanups,      \* number of times callback has been invoked
    exchange,      \* the competing exchange: "absent", "pending", "fulfilled"
    race,          \* the promise of Promise.race: [state, value]
    jobs,          \* reaction jobs of the race, in the order they were queued
    settled,       \* history: the raced promises in the order they settled
    \* ---- arrDiff / arrAdd ----
    listA,         \* argument listA
    listB,         \* argument listB
    diff,          \* value returned by arrDiff
    sum,           \* value returned by arrAdd
    arrPc          \* which of the two calls have returned

gwVars == <<ipList, matchIp, correctIp, privateIps, routerIps, gwPc>>
bufVars == <<bytes, matrix, buffer, i, errors, bufPc>>
tmVars == <<now, time, msg, callback, timer, promise, cleanups, exchange,
            race, jobs, settled>>
arrVars == <<listA, listB, diff, sum, arrPc>>

vars == <<gwVars, bufVars, tmVars, arrVars>>

(***************************************************************************)
(* Bounds                                                                  *)
(***************************************************************************)
MaxTable == 2      \* longest gateway table handed to longestPrefixMatch
MaxIps == 2        \* longest privateIps list handed to filterRouterIps
MaxRows == 2       \* longest matrix handed to createArrayBuffer
MaxBytes == 5      \* largest buffer size handed to createArrayBuffer
MaxDelay == 2      \* longest duration handed to countdownReject
MaxLen == 2        \* longest list handed to arrDiff and arrAdd

(***************************************************************************)
(* JavaScript values                                                       *)
(***************************************************************************)
\* JavaScript's undefined, e.g. the value of ipList[-1]. Addresses are
\* sequences of four octets, so the empty sequence is no address.
Undefined == <<>>

\* 2^n for the shifts of ipaddr.js
RECURSIVE Pow2(_)
Pow2(n) == IF n = 0 THEN 1 ELSE 2 * Pow2(n - 1)

\* all sequences over S of length lo..hi
SeqsBetween(S, lo, hi) == UNION {[1..n -> S] : n \in lo..hi}

(***************************************************************************)
(* Gateway location                                                        *)
(***************************************************************************)
ROUTER_IPS ==
    << <<192,168,1,1>>, <<192,168,2,1>>, <<192,168,11,1>>,
       <<192,168,0,1>>, <<192,168,0,30>>, <<192,168,0,50>>, <<192,168,20,1>>,
       <<192,168,30,1>>, <<192,168,62,1>>, <<192,168,100,1>>, <<192,168,102,1>>,
       <<192,168,1,254>>, <<192,168,10,1>>, <<192,168,123,254>>, <<192,168,4,1>>,
       <<10,0,1,1>>, <<10,1,1,1>>, <<10,0,0,13>>, <<10,0,0,2>>, <<10,0,0,138>> >>

\* ipaddr.js matchCIDR(first, second, partSize = 8, cidrBits), the loop
\* over the parts starting at index part (1-based here).
RECURSIVE matchCIDR(_, _, _, _)
matchCIDR(first, second, part, cidrBits) ==
    IF cidrBits <= 0 THEN TRUE
    ELSE LET shift == IF 8 - cidrBits < 0 THEN 0 ELSE 8 - cidrBits
         IN  IF (first[part] \div Pow2(shift)) # (second[part] \div Pow2(shift))
             THEN FALSE
             ELSE matchCIDR(first, second, part + 1, cidrBits - 8)

\* ip.match(matchIp, mask)
match(ip, other, mask) == matchCIDR(ip, other, 1, mask)

\* The inner loop of longestPrefixMatch: the masks 1..31 are tried in
\* order; the first one that does not match pushes mask - 1 and breaks.
\* When every mask of 1..31 matches, the loop ends without pushing.
RECURSIVE maskLoop(_, _, _)
maskLoop(ip, other, mask) ==
    IF mask >= 32 THEN <<>>
    ELSE IF ~match(ip, other, mask) THEN <<mask - 1>>
    ELSE maskLoop(ip, other, mask + 1)

\* The outer loop: what the entries idx..Len(list) push to prefixMatches.
RECURSIVE prefixMatchesFrom(_, _, _)
prefixMatchesFrom(list, other, idx) ==
    IF idx > Len(list) THEN <<>>
    ELSE maskLoop(list[idx], other, 1) \o prefixMatchesFrom(list, other, idx + 1)

\* Array.prototype.indexOf, 0-based, -1 when absent
RECURSIVE indexOfFrom(_, _, _)
indexOfFrom(arr, x, k) ==
    IF k > Len(arr) THEN -1
    ELSE IF arr[k] = x THEN k - 1
    ELSE indexOfFrom(arr, x, k + 1)

indexOf(arr, x) == indexOfFrom(arr, x, 1)

\* prefixMatches.indexOf(Math.max.apply(null, prefixMatches)); Math.max of
\* no arguments is -Infinity, which no array of mask lengths contains.
argmaxIndex(prefixMatches) ==
    IF prefixMatches = <<>> THEN -1
    ELSE LET m == CHOOSE v \in {prefixMatches[k] : k \in 1..Len(prefixMatches)} :
                      \A k \in 1..Len(prefixMatches) : prefixMatches[k] <= v
         IN  indexOf(prefixMatches, m)

\* ipList[maxIndex] of a JavaScript array (0-based, undefined outside)
jsIndex(arr, k) == IF k >= 0 /\ k < Len(arr) THEN arr[k + 1] ELSE Undefined

longestPrefixMatch(list, ip) ==
    jsIndex(list, argmaxIndex(prefixMatchesFrom(list, ip, 1)))

\* privateIps.forEach(... routerIps.push(longestPrefixMatch(ROUTER_IPS, ip)))
filterRouterIps(ips) ==
    [k \in 1..Len(ips) |-> longestPrefixMatch(ROUTER_IPS, ips[k])]

\* gateway tables and private addresses the calls are tried on
GatewayPool ==
    { <<192,168,1,1>>, <<192,168,1,254>>, <<192,168,0,1>>,
      <<10,0,0,2>>, <<10,0,0,13>> }

PrivatePool ==
    { <<192,168,1,37>>, <<192,168,1,1>>, <<192,168,1,0>>, <<192,168,0,7>>,
      <<192,168,123,45>>, <<10,0,0,2>>, <<10,0,0,3>>, <<10,0,1,200>>,
      <<10,1,2,3>>, <<172,16,0,5>> }

\* the gateway variables while no gateway call is under study
GwIdle ==
    /\ ipList = <<>>
    /\ matchIp = Undefined
    /\ privateIps = <<>>
    /\ correctIp = Undefined
    /\ routerIps = <<>>
    /\ gwPc = "idle"

LpmInit ==
    /\ ipList \in SeqsBetween(GatewayPool, 1, MaxTable)
    /\ matchIp \in PrivatePool
    /\ privateIps = <<>>
    /\ correctIp = Undefined
    /\ routerIps = <<>>
    /\ gwPc = "call"

FilterInit ==
    /\ ipList = <<>>
    /\ matchIp = Undefined
    /\ privateIps \in SeqsBetween(PrivatePool, 0, MaxIps)
    /\ correctIp = Undefined
    /\ routerIps = <<>>
    /\ gwPc = "call"

LongestPrefixMatchCall ==
    /\ gwPc = "call"
    /\ correctIp' = longestPrefixMatch(ipList, matchIp)
    /\ gwPc' = "lpmDone"
    /\ UNCHANGED <<ipList, matchIp, privateIps, routerIps>>
    /\ UNCHANGED <<bufVars, tmVars, arrVars>>

FilterRouterIpsCall ==
    /\ gwPc = "call"
    /\ ipList = <<>>
    /\ routerIps' = filterRouterIps(privateIps)
    /\ gwPc' = "filterDone"
    /\ UNCHANGED <<ipList, matchIp, privateIps, correctIp>>
    /\ UNCHANGED <<bufVars, tmVars, arrVars>>

\* ---- what the gateway claims speak about ----

\* the 32 bits of an address, most significant first
BitOf(ip, n) == (ip[((n - 1) \div 8) + 1] \div Pow2(7 - ((n - 1) % 8))) % 2

\* number of leading bits a and b share, 0..32
SharedBits(a, b) ==
    CHOOSE n \in 0..32 :
        /\ \A k \in 1..n : BitOf(a, k) = BitOf(b, k)
        /\ (n < 32 => BitOf(a, n + 1) # BitOf(b, n + 1))

\* the earliest member of table G with maximal SharedBits to p
BestGateway(G, p) ==
    LET best == CHOOSE k \in 1..Len(G) :
                   /\ \A j \in 1..Len(G) : SharedBits(G[j], p) <= SharedBits(G[k], p)
                   /\ \A j \in 1..(k - 1) : SharedBits(G[j], p) < SharedBits(G[k], p)
    IN  G[best]

\* C1: longestPrefixMatch(G, p) returns the earliest member of G whose
\* number of leading bits shared with p is maximal, also when a member of
\* G agrees with p on its first 31 bits.
C1_LongestPrefixMatch ==
    gwPc = "lpmDone" => correctIp = BestGateway(ipList, matchIp)

\* C2: filterRouterIps returns one entry per private address, in input
\* order, each the longest-prefix-match member of ROUTER_IPS (so never
\* undefined), and an empty list for an empty input.
C2_FilterRouterIps ==
    gwPc = "filterDone" =>
        /\ Len(routerIps) = Len(privateIps)
        /\ \A k \in 1..Len(privateIps) :
              routerIps[k] = BestGateway(ROUTER_IPS, privateIps[k])

(***************************************************************************)
(* createArrayBuffer                                                       *)
(***************************************************************************)
\* new ArrayBuffer(n): n zero bytes
zeroBuffer(n) == [k \in 1..n |-> 0]

\* DataView's bounds check: a RangeError unless the n bytes at byteOffset
\* lie inside the view
inView(byteOffset, n, size) == byteOffset >= 0 /\ byteOffset + n <= size

setInt16LittleEndian(buf, byteOffset, value) ==
    [buf EXCEPT ![byteOffset + 1] = value % 256,
                ![byteOffset + 2] = (value \div 256) % 256]

setInt32LittleEndian(buf, byteOffset, value) ==
    [buf EXCEPT ![byteOffset + 1] = value % 256,
                ![byteOffset + 2] = (value \div 256) % 256,
                ![byteOffset + 3] = (value \div 65536) % 256,
                ![byteOffset + 4] = (value \div 16777216) % 256]

\* view.setInt8(byteOffset, value): the value modulo 2^8
setInt8(buf, byteOffset, value) ==
    [buf EXCEPT ![byteOffset + 1] = value % 256]

\* view.setInt16(byteOffset, value, false): modulo 2^16, big-endian
setInt16(buf, byteOffset, value) ==
    [buf EXCEPT ![byteOffset + 1] = (value \div 256) % 256,
                ![byteOffset + 2] = value % 256]

\* view.setInt32(byteOffset, value, false): modulo 2^32, big-endian
setInt32(buf, byteOffset, value) ==
    [buf EXCEPT ![byteOffset + 1] = (value \div 16777216) % 256,
                ![byteOffset + 2] = (value \div 65536) % 256,
                ![byteOffset + 3] = (value \div 256) % 256,
                ![byteOffset + 4] = value % 256]

consoleErrorDropped(n) == n

\* console.error('Invalid parameters to createArrayBuffer')
consoleError(n) == n + 1

\* the rows the calls are tried on: every width (24 is no width of the
\* code), three offsets, a negative value, one that needs two bytes and one
\* with four different bytes (0x01020304)
Widths == {8, 16, 32, 24}
Offsets == {0, 1, 3}
Values == {-2, 55555, 16909060}
RowPool == {<<w, o, v>> : w \in Widths, o \in Offsets, v \in Values}

BufIdle ==
    /\ bytes = 0
    /\ matrix = <<>>
    /\ buffer = <<>>
    /\ i = 0
    /\ errors = 0
    /\ bufPc = "idle"

\* createArrayBuffer has been entered: buffer and view exist, i = 0
BufInit ==
    /\ bytes \in {0, MaxBytes - 1, MaxBytes}
    /\ matrix \in SeqsBetween(RowPool, 0, MaxRows)
    /\ buffer = zeroBuffer(bytes)
    /\ i = 0
    /\ errors = 0
    /\ bufPc = "loop"

\* one iteration of the loop with row[0] === 8
BufSetInt8 ==
    /\ bufPc = "loop"
    /\ i < Len(matrix)
    /\ matrix[i + 1][1] = 8
    /\ IF inView(matrix[i + 1][2], 1, bytes)
       THEN /\ buffer' = setInt8(buffer, matrix[i + 1][2], matrix[i + 1][3])
            /\ i' = i + 1
            /\ bufPc' = "loop"
       ELSE /\ bufPc' = "thrown"
            /\ UNCHANGED <<buffer, i>>
    /\ UNCHANGED <<bytes, matrix, errors>>
    /\ UNCHANGED <<gwVars, tmVars, arrVars>>

\* one iteration of the loop with row[0] === 16
BufSetInt16 ==
    /\ bufPc = "loop"
    /\ i < Len(matrix)
    /\ matrix[i + 1][1] = 16
    /\ IF inView(matrix[i + 1][2], 2, bytes)
       THEN /\ buffer' = setInt16(buffer, matrix[i + 1][2], matrix[i + 1][3])
            /\ i' = i + 1
            /\ bufPc' = "loop"
       ELSE /\ bufPc' = "thrown"
            /\ UNCHANGED <<buffer, i>>
    /\ UNCHANGED <<bytes, matrix, errors>>
    /\ UNCHANGED <<gwVars, tmVars, arrVars>>

\* one iteration of the loop with row[0] === 32
BufSetInt32 ==
    /\ bufPc = "loop"
    /\ i < Len(matrix)
    /\ matrix[i + 1][1] = 32
    /\ IF inView(matrix[i + 1][2], 4, bytes)
       THEN /\ buffer' = setInt32(buffer, matrix[i + 1][2], matrix[i + 1][3])
            /\ i' = i + 1
            /\ bufPc' = "loop"
       ELSE /\ bufPc' = "thrown"
            /\ UNCHANGED <<buffer, i>>
    /\ UNCHANGED <<bytes, matrix, errors>>
    /\ UNCHANGED <<gwVars, tmVars, arrVars>>

\* one iteration of the loop taking the final else
BufInvalidRow ==
    /\ bufPc = "loop"
    /\ i < Len(matrix)
    /\ matrix[i + 1][1] \notin {8, 16, 32}
    /\ errors' = consoleError(errors)
    /\ i' = i + 1
    /\ UNCHANGED <<bytes, matrix, buffer, bufPc>>
    /\ UNCHANGED <<gwVars, tmVars, arrVars>>

\* the loop is over: return Buffer.from(buffer)
BufReturn ==
    /\ bufPc = "loop"
    /\ i >= Len(matrix)
    /\ bufPc' = "returned"
    /\ UNCHANGED <<bytes, matrix, buffer, i, errors>>
    /\ UNCHANGED <<gwVars, tmVars, arrVars>>

BufNext ==
    \/ BufSetInt8
    \/ BufSetInt16
    \/ BufSetInt32
    \/ BufInvalidRow
    \/ BufReturn

\* ---- what the createArrayBuffer claims speak about ----

ValidWidth(w) == w \in {8, 16, 32}

\* the 0-based byte positions a row of valid width covers
Covered(row) ==
    IF ValidWidth(row[1]) THEN row[2]..(row[2] + (row[1] \div 8) - 1) ELSE {}

\* base-256 digit k (0 the least significant) of v modulo a power of 256
RECURSIVE Digit(_, _)
Digit(v, k) == IF k = 0 THEN v - 256 * (v \div 256) ELSE Digit(v \div 256, k - 1)

\* the byte that a big-endian row holds at the 0-based buffer position j
ExpectedByte(row, j) == Digit(row[3], (row[1] \div 8) - 1 - (j - row[2]))

\* reading n bytes at byteOffset big-endian as an unsigned number
RECURSIVE getUint(_, _, _)
getUint(buf, byteOffset, n) ==
    IF n = 0 THEN 0
    ELSE getUint(buf, byteOffset, n - 1) * 256 + buf[byteOffset + n]

\* reading n bytes at byteOffset big-endian as a two's complement number
getInt(buf, byteOffset, n) ==
    LET top == buf[byteOffset + 1]
        low == getUint(buf, byteOffset + 1, n - 1)
    IN  IF top >= 128 THEN (top - 256) * Pow2(8 * (n - 1)) + low
        ELSE top * Pow2(8 * (n - 1)) + low

\* value fits the width as a signed, resp. unsigned, number (all numbers
\* of the model fit 32 signed bits)
SignedFits(v, w) ==
    IF w = 32 THEN TRUE ELSE v >= -Pow2(w - 1) /\ v <= Pow2(w - 1) - 1
UnsignedFits(v, w) ==
    IF w = 32 THEN v >= 0 ELSE v >= 0 /\ v <= Pow2(w) - 1

\* a valid field-spec list: widths of the code, fields inside the buffer,
\* no two fields overlapping, every value representable in its width
ValidSpecList ==
    /\ \A r \in 1..Len(matrix) :
          /\ ValidWidth(matrix[r][1])
          /\ inView(matrix[r][2], matrix[r][1] \div 8, bytes)
          /\ SignedFits(matrix[r][3], matrix[r][1])
             \/ UnsignedFits(matrix[r][3], matrix[r][1])
    /\ \A r1, r2 \in 1..Len(matrix) :
          r1 # r2 => Covered(matrix[r1]) \cap Covered(matrix[r2]) = {}

\* C3: for a valid field-spec list, reading each field back from the
\* returned buffer at its offset and width, big-endian, gives the value
\* that was written, whatever the order of the rows.
C3_RoundTrip ==
    (bufPc = "returned" /\ ValidSpecList) =>
        \A r \in 1..Len(matrix) :
            LET w == matrix[r][1]
                o == matrix[r][2]
                v == matrix[r][3]
            IN  /\ SignedFits(v, w) => getInt(buffer, o, w \div 8) = v
                /\ UnsignedFits(v, w) => getUint(buffer, o, w \div 8) = v

\* a returned buffer of a valid list of two fields or more, a field of
\* more than one byte among them, listed with a later field first
C3_Witness ==
    /\ bufPc = "returned"
    /\ ValidSpecList
    /\ Len(matrix) >= 2
    /\ matrix[1][2] > matrix[2][2]
    /\ \E r \in 1..Len(matrix) : matrix[r][1] > 8

\* C4 (as stated): the returned buffer has bytes bytes; the bytes of every
\* row of valid width hold value mod 2^width big-endian; every byte that
\* no row covers is zero.
C4_EveryRowHeld ==
    bufPc = "returned" =>
        /\ Len(buffer) = bytes
        /\ \A r \in 1..Len(matrix) : \A j \in Covered(matrix[r]) :
              buffer[j + 1] = ExpectedByte(matrix[r], j)
        /\ \A j \in 0..(bytes - 1) :
              (\A r \in 1..Len(matrix) : j \notin Covered(matrix[r]))
                  => buffer[j + 1] = 0

\* the last row of the matrix that covers byte j, 0 when none does
LastCovering(j) ==
    IF \E r \in 1..Len(matrix) : j \in Covered(matrix[r])
    THEN CHOOSE r \in 1..Len(matrix) :
            /\ j \in Covered(matrix[r])
            /\ \A q \in (r + 1)..Len(matrix) : j \notin Covered(matrix[q])
    ELSE 0

\* C4 (amended): whenever createArrayBuffer returns, the buffer has bytes
\* bytes; each byte holds the big-endian byte of value mod 2^width of the
\* last row of valid width that covers it, and zero when no row covers it.
C4_LastRowHeld ==
    bufPc = "returned" =>
        /\ Len(buffer) = bytes
        /\ \A j \in 0..(bytes - 1) :
              buffer[j + 1] =
                  IF LastCovering(j) = 0 THEN 0
                  ELSE ExpectedByte(matrix[LastCovering(j)], j)

\* a returned buffer with a 32-bit row, a later row over some of its
\* bytes, and a byte that no row covers
C4_Witness ==
    /\ bufPc = "returned"
    /\ Len(matrix) = 2
    /\ matrix[1][1] = 32
    /\ Covered(matrix[1]) \cap Covered(matrix[2]) # {}
    /\ \E j \in 0..(bytes - 1) : LastCovering(j) = 0

\* the buffer after the rows of valid width among the first k rows
RECURSIVE WrittenBy(_, _)
WrittenBy(rows, k) ==
    IF k = 0 THEN zeroBuffer(bytes)
    ELSE LET row == rows[k]
             before == WrittenBy(rows, k - 1)
         IN  IF row[1] = 8 THEN setInt8(before, row[2], row[3])
             ELSE IF row[1] = 16 THEN setInt16(before, row[2], row[3])
             ELSE IF row[1] = 32 THEN setInt32(before, row[2], row[3])
             ELSE before

InvalidRows(k) == {r \in 1..k : ~ValidWidth(matrix[r][1])}

\* C5: every row whose width is outside {8,16,32} is reported once; it
\* writes no byte; the rows before and after it are still written and
\* the call still returns (only a row of valid width ends the call early).
C5_InvalidRowsReported ==
    /\ errors = Cardinality(InvalidRows(i))
    /\ bufPc # "idle" => buffer = WrittenBy(matrix, i)
    /\ bufPc = "returned" => i = Len(matrix)
    /\ bufPc = "thrown" => ValidWidth(matrix[i + 1][1])

\* a returned buffer whose matrix has a row of invalid width followed by a
\* row that was written
C5_Witness ==
    /\ bufPc = "returned"
    /\ Len(matrix) = 2
    /\ ~ValidWidth(matrix[1][1])
    /\ ValidWidth(matrix[2][1])
    /\ buffer # zeroBuffer(bytes)
    /\ errors = 1

(***************************************************************************)
(* arrDiff / arrAdd                                                        *)
(***************************************************************************)
\* listA.forEach of arrDiff from entry k on: a is pushed when
\* listB.indexOf(a) === -1
RECURSIVE arrDiffFrom(_, _, _)
arrDiffFrom(A, B, k) ==
    IF k > Len(A) THEN <<>>
    ELSE IF indexOf(B, A[k]) = -1 THEN <<A[k]>> \o arrDiffFrom(A, B, k + 1)
    ELSE arrDiffFrom(A, B, k + 1)

arrDiffKeepsAll(A, B) == A

arrDiff(A, B) == arrDiffFrom(A, B, 1)

\* one forEach of arrAdd from entry k on: x is pushed to acc when
\* sum.indexOf(x) === -1
RECURSIVE pushNew(_, _, _)
pushNew(acc, list, k) ==
    IF k > Len(list) THEN acc
    ELSE IF indexOf(acc, list[k]) = -1 THEN pushNew(Append(acc, list[k]), list, k + 1)
    ELSE pushNew(acc, list, k + 1)

arrAddConcat(A, B) == A \o B

arrAddSkipsB(A, B) == pushNew(<<>>, A, 1)

arrAdd(A, B) == pushNew(pushNew(<<>>, A, 1), B, 1)

\* the addresses the lists are made of
Elements == {"10.0.0.5", "192.168.1.37", "172.16.0.5"}

ArrIdle ==
    /\ listA = <<>>
    /\ listB = <<>>
    /\ diff = <<>>
    /\ sum = <<>>
    /\ arrPc = [diff |-> "idle", add |-> "idle"]

ArrInit ==
    /\ listA \in SeqsBetween(Elements, 0, MaxLen)
    /\ listB \in SeqsBetween(Elements, 0, MaxLen)
    /\ diff = <<>>
    /\ sum = <<>>
    /\ arrPc = [diff |-> "call", add |-> "call"]

ArrDiffCall ==
    /\ arrPc.diff = "call"
    /\ diff' = arrDiff(listA, listB)
    /\ arrPc' = [arrPc EXCEPT !.diff = "done"]
    /\ UNCHANGED <<listA, listB, sum>>
    /\ UNCHANGED <<gwVars, bufVars, tmVars>>

ArrAddCall ==
    /\ arrPc.add = "call"
    /\ sum' = arrAdd(listA, listB)
    /\ arrPc' = [arrPc EXCEPT !.add = "done"]
    /\ UNCHANGED <<listA, listB, diff>>
    /\ UNCHANGED <<gwVars, bufVars, tmVars>>

ArrNext == ArrDiffCall \/ ArrAddCall

\* ---- what the reconciliation claims speak about ----

Elems(list) == {list[k] : k \in 1..Len(list)}

NoDuplicates(list) ==
    \A j, k \in 1..Len(list) : j # k => list[j] # list[k]

\* 1-based position of the first occurrence of x in list
FirstAt(list, x) == CHOOSE k \in 1..Len(list) :
    list[k] = x /\ \A j \in 1..(k - 1) : list[j] # x

\* out is list with some entries left out: an increasing choice of
\* positions of list spells out
IsSubsequence(out, list) ==
    \E f \in [1..Len(out) -> 1..Len(list)] :
        /\ \A k \in 1..Len(out) : list[f[k]] = out[k]
        /\ \A j, k \in 1..Len(out) : j < k => f[j] < f[k]

\* C7: arrAdd(A, B) holds every distinct element of A in order of first
\* occurrence in A, then every distinct element of B not in A in order of
\* first occurrence in B; each exactly once and nothing else.
C7_ArrAdd ==
    arrPc.add = "done" =>
        LET nA == Cardinality(Elems(listA))
        IN  /\ Elems(sum) = Elems(listA) \cup Elems(listB)
            /\ NoDuplicates(sum)
            /\ \A k \in 1..Len(sum) : (k <= nA) <=> (sum[k] \in Elems(listA))
            /\ \A j, k \in 1..Len(sum) :
                  (j < k /\ k <= nA) => FirstAt(listA, sum[j]) < FirstAt(listA, sum[k])
            /\ \A j, k \in 1..Len(sum) :
                  (nA < j /\ j < k) => FirstAt(listB, sum[j]) < FirstAt(listB, sum[k])

\* arrAdd has returned for an A that repeats an element and a B that
\* shares an element with A and brings a new one
C7_Witness ==
    /\ arrPc.add = "done"
    /\ ~NoDuplicates(listA)
    /\ Elems(listA) \cap Elems(listB) # {}
    /\ Elems(listB) \ Elems(listA) # {}

\* C8: the elements of arrDiff(A, B) are exactly the elements of A that
\* do not occur in B, in the relative order of A, and the call modifies
\* neither A nor B.
C8_ArrDiff ==
    [][(arrPc.diff = "call" /\ arrPc'.diff = "done") =>
          /\ Elems(diff') = Elems(listA) \ Elems(listB)
          /\ IsSubsequence(diff', listA)
          /\ listA' = listA
          /\ listB' = listB]_vars

\* arrDiff has returned a list that is neither empty nor all of A
C8_Witness ==
    /\ arrPc.diff = "done"
    /\ diff # <<>>
    /\ diff # listA
    /\ Elems(listB) \ Elems(listA) # {}

\* C9 (as stated): neither arrAdd(A, B) nor arrDiff(A, B) contains an
\* element twice, even when A or B repeat elements.
C9_NoDuplicatesEither ==
    /\ arrPc.add = "done" => NoDuplicates(sum)
    /\ arrPc.diff = "done" => NoDuplicates(diff)

\* number of positions of list holding x
Occurrences(list, x) == Cardinality({k \in 1..Len(list) : list[k] = x})

\* C9 (amended): arrAdd(A, B) never contains an element twice and keeps
\* first-seen order; arrDiff(A, B) keeps each element of A absent from B
\* as many times as A holds it, so it is free of duplicates exactly when
\* those elements are not repeated in A.
C9_NoDuplicatesInSum ==
    /\ arrPc.add = "done" =>
          /\ NoDuplicates(sum)
          /\ \A j, k \in 1..Len(sum) :
                j < k => FirstAt(listA \o listB, sum[j]) < FirstAt(listA \o listB, sum[k])
    /\ arrPc.diff = "done" =>
          /\ \A x \in Elems(diff) : Occurrences(diff, x) = Occurrences(listA, x)
          /\ IsSubsequence(diff, listA)

\* both calls have returned for an A that repeats an element absent from B
C9_Witness ==
    /\ arrPc.add = "done"
    /\ arrPc.diff = "done"
    /\ \E x \in Elems(listA) \ Elems(listB) : Occurrences(listA, x) > 1
    /\ listB # <<>>

(***************************************************************************)
(* countdownReject                                                         *)
(***************************************************************************)
\* the clock is followed one step past the longest duration
MaxTime == MaxDelay + 1

Messages == {"No NAT-PMP response", "No PCP response"}

invokeCallbackSkipped(n) == n

\* callback(): one more invocation of the cleanup action
invokeCallback(n) == n + 1

\* R(new Error(msg)): settles a pending promise, no effect on a settled one
R(p, m) ==
    IF p.state = "pending" THEN [state |-> "rejected", reason |-> m] ELSE p

TmIdle ==
    /\ now = 0
    /\ time = 0
    /\ msg = ""
    /\ callback = FALSE
    /\ timer = "none"
    /\ promise = [state |-> "none", reason |-> ""]
    /\ cleanups = 0
    /\ exchange = "absent"
    /\ race = [state |-> "none", value |-> ""]
    /\ jobs = <<>>
    /\ settled = <<>>

\* countdownReject(time, msg, callback) has just returned its promise:
\* the timer is armed. Either nothing competes with it, or it is raced
\* against a pending exchange.
TmInit ==
    /\ now = 0
    /\ time \in 0..MaxDelay
    /\ msg \in Messages
    /\ callback \in BOOLEAN
    /\ timer = "armed"
    /\ promise = [state |-> "pending", reason |-> ""]
    /\ cleanups = 0
    /\ exchange \in {"absent", "pending"}
    /\ race = [state |-> IF exchange = "pending" THEN "pending" ELSE "none",
               value |-> ""]
    /\ jobs = <<>>
    /\ settled = <<>>

\* time passes (never in the middle of the timer's handler)
Tick ==
    /\ now < MaxTime
    /\ timer # "running"
    /\ now' = now + 1
    /\ UNCHANGED <<time, msg, callback, timer, promise, cleanups, exchange,
                   race, jobs, settled>>
    /\ UNCHANGED <<gwVars, bufVars, arrVars>>

TimerExpireAtOnce ==
    /\ timer = "armed"
    /\ cleanups' = IF callback THEN invokeCallback(cleanups) ELSE cleanups
    /\ timer' = "running"
    /\ UNCHANGED <<now, time, msg, callback, promise, exchange, race, jobs,
                   settled>>
    /\ UNCHANGED <<gwVars, bufVars, arrVars>>

\* the function handed to setTimeout starts, no earlier than time after
\* the call: callback() when callback !== undefined
TimerExpire ==
    /\ timer = "armed"
    /\ now >= time
    /\ cleanups' = IF callback THEN invokeCallback(cleanups) ELSE cleanups
    /\ timer' = "running"
    /\ UNCHANGED <<now, time, msg, callback, promise, exchange, race, jobs,
                   settled>>
    /\ UNCHANGED <<gwVars, bufVars, arrVars>>

\* the function handed to setTimeout ends: R(new Error(msg)); a race the
\* promise takes part in gets a reaction job
TimerReject ==
    /\ timer = "running"
    /\ promise' = R(promise, msg)
    /\ timer' = "fired"
    /\ settled' = Append(settled, "countdown")
    /\ jobs' = IF race.state = "none" THEN jobs
               ELSE Append(jobs, [state |-> "rejected", value |-> msg])
    /\ UNCHANGED <<now, time, msg, callback, cleanups, exchange, race>>
    /\ UNCHANGED <<gwVars, bufVars, arrVars>>

\* the competing exchange succeeds; nothing in it touches the timer
ExchangeSucceed ==
    /\ exchange = "pending"
    /\ timer # "running"
    /\ exchange' = "fulfilled"
    /\ settled' = Append(settled, "exchange")
    /\ jobs' = Append(jobs, [state |-> "fulfilled", value |-> "response"])
    /\ UNCHANGED <<now, time, msg, callback, timer, promise, cleanups, race>>
    /\ UNCHANGED <<gwVars, bufVars, arrVars>>

\* Promise.race: the oldest reaction job settles the race when it is
\* still pending and is dropped otherwise
RaceSettle ==
    /\ jobs # <<>>
    /\ timer # "running"
    /\ race' = IF race.state = "pending" THEN Head(jobs) ELSE race
    /\ jobs' = Tail(jobs)
    /\ UNCHANGED <<now, time, msg, callback, timer, promise, cleanups,
                   exchange, settled>>
    /\ UNCHANGED <<gwVars, bufVars, arrVars>>

TmNext ==
    \/ Tick
    \/ TimerExpire
    \/ TimerReject
    \/ ExchangeSucceed
    \/ RaceSettle

\* ---- what the countdownReject claims speak about ----

CountdownSafe ==
    /\ promise.state \in {"pending", "rejected"}
    /\ now < time => promise.state = "pending"
    /\ promise.state = "rejected" =>
          /\ promise.reason = msg
          /\ cleanups = IF callback THEN 1 ELSE 0
    /\ cleanups <= 1
    /\ timer = "armed" => cleanups = 0

RaceSafe ==
    (exchange # "absent" /\ callback) =>
        /\ cleanups <= 1
        /\ timer = "fired" => cleanups = 1
        /\ race.state # "pending" =>
              /\ settled # <<>>
              /\ settled[1] = "exchange" =>
                    race = [state |-> "fulfilled", value |-> "response"]
              /\ settled[1] = "countdown" =>
                    race = [state |-> "rejected", value |-> msg]

\* C10: raced against an exchange, the race takes the outcome of whichever
\* settled first and keeps it; a success does not cancel the timer, whose
\* callback still runs exactly once when the duration has elapsed.
C10_RaceCleanup ==
    /\ []RaceSafe
    /\ [][race.state \in {"fulfilled", "rejected"} => race' = race]_vars
    /\ [][exchange' # exchange => timer' = timer]_vars
    /\ (exchange # "absent" /\ callback) => <>[](cleanups = 1)

\* the exchange won the race and the timer fired afterwards, running the
\* callback
C10_Witness ==
    /\ callback
    /\ race = [state |-> "fulfilled", value |-> "response"]
    /\ settled = <<"exchange", "countdown">>
    /\ timer = "fired"
    /\ cleanups = 1

(***************************************************************************)
(* Specifications                                                          *)
(***************************************************************************)
InitLpm == LpmInit /\ BufIdle /\ TmIdle /\ ArrIdle

InitFilter == FilterInit /\ BufIdle /\ TmIdle /\ ArrIdle

InitBuffer == BufInit /\ GwIdle /\ TmIdle /\ ArrIdle

InitArr == ArrInit /\ GwIdle /\ BufIdle /\ TmIdle

InitTimer == TmInit /\ GwIdle /\ BufIdle /\ ArrIdle

SpecLpm == InitLpm /\ [][LongestPrefixMatchCall]_vars

SpecFilter == InitFilter /\ [][FilterRouterIpsCall]_vars

SpecBuffer == InitBuffer /\ [][BufNext]_vars

SpecArr == InitArr /\ [][ArrNext]_vars

\* The event loop runs a due timer and queued reaction jobs, and time
\* passes; whether the exchange ever succeeds is left open.
SpecTimer ==
    /\ InitTimer
    /\ [][TmNext]_vars
    /\ WF_vars(Tick)
    /\ WF_vars(TimerExpire)
    /\ WF_vars(TimerReject)
    /\ WF_vars(RaceSettle)

====
